---- MODULE Spec2Model ----
(***************************************************************************)
(* A model of the alpaca-webui front end: the chat input component, the    *)
(* settings form, the model-list query function, the upload page and the   *)
(* POST /api/documents route.  Each component has its own specification    *)
(* (SpecChat, SpecSettings, SpecModels, SpecUpload, SpecEmbed, SpecServer)  *)
(* over the same variables; a component's specification leaves the other   *)
(* components' variables at their initial values.  SpecUpload is the file   *)
(* selection and upload flow of the upload page, SpecEmbed its file list    *)
(* and Embed buttons.                                                       *)
(*                                                                         *)
(* Text is modelled as a sequence of one-character strings, so that trim,  *)
(* length checks and the URL regular expression are computed on the        *)
(* characters and not assumed.                                             *)
(***************************************************************************)
EXTENDS Integers, Sequences, FiniteSets, TLC

VARIABLES
    \* ---- ChatInput (src/unnamed/part_000) ----
    isStreamProcessing,   \* prop
    isFetchLoading,       \* prop
    isLlmModelActive,     \* prop
    chatInput,            \* useState<string>('')
    sendLog,              \* the calls of the prop onSendInput, in order
    cancelCount,          \* the calls of the prop onCancelStream
    chatOp,               \* the last event the component handled
    \* ---- SettingsForm (src/docker-compose.yml, lines 47-234) ----
    formUrl,              \* form value 'url'
    formApiKey,           \* form value 'apiKey'
    formVariant,          \* form value 'modelListVariant'
    dialogOpen,           \* the state behind the prop setDialogOpen
    settings,             \* the settings store (useSettingsStore)
    settingsOp,           \* the last event the form handled
    \* ---- useModelList (src/src/hooks/use-model-list.tsx) ----
    embeddedOnly,         \* the hook's argument
    query,                \* where the query function stands
    apiCalls,             \* the calls made on api, in order
    models,               \* data: what the query function returned
    \* ---- upload page (src/src/app/upload/page.tsx) ----
    progress,             \* useState(0)
    fileLoading,          \* useState(false)
    filename,             \* useState('')
    filesize,             \* useState(0)
    fadeOut,              \* useState(false)
    formFile,             \* form value 'file'
    fileErrors,           \* the messages of the field-level error
    uploads,              \* the invocations of onSubmit, in order
    timers,               \* the pending setTimeout callbacks
    now,                  \* the time, in seconds
    toasts,               \* the notifications shown, in order
    fetchLog,             \* the calls of fetch('/api/documents'), in order
    isEmbedding,          \* useState(false)
    files,                \* useState([]): the file list shown
    filesLoading,         \* useState(true)
    loadsPending,         \* the calls of getFiles() that have not returned
    embeds,               \* the invocations of embedDocumentPost, in order
    \* ---- POST /api/documents (src/src/app/api/documents/route.ts) ----
    requests,             \* the requests received, in order
    disk,                 \* the directory ./uploads: file name -> bytes
    fileRows,             \* the rows of table 'files', in insertion order
    serverOp              \* the last step the route took

chatVars == <<isStreamProcessing, isFetchLoading, isLlmModelActive,
              chatInput, sendLog, cancelCount, chatOp>>

settingsVars == <<formUrl, formApiKey, formVariant, dialogOpen, settings, settingsOp>>

modelsVars == <<embeddedOnly, query, apiCalls, models>>

uploadVars == <<progress, fileLoading, filename, filesize, fadeOut, formFile,
                fileErrors, uploads, timers, now, toasts, fetchLog>>

embedVars == <<isEmbedding, files, filesLoading, loadsPending, embeds>>

serverVars == <<requests, disk, fileRows, serverOp>>

vars == <<chatVars, settingsVars, modelsVars, uploadVars, embedVars, serverVars>>

\* What a step of one component leaves alone.
ChatFrame == UNCHANGED <<settingsVars, modelsVars, uploadVars, embedVars, serverVars>>
SettingsFrame == UNCHANGED <<chatVars, modelsVars, uploadVars, embedVars, serverVars>>
ModelsFrame == UNCHANGED <<chatVars, formUrl, formApiKey, formVariant, dialogOpen,
                           settingsOp, uploadVars, embedVars, serverVars>>
UploadFrame == UNCHANGED <<chatVars, settingsVars, modelsVars, embedVars, serverVars>>
EmbedFrame == UNCHANGED <<chatVars, settingsVars, modelsVars, progress, fileLoading,
                          filename, filesize, fadeOut, formFile, fileErrors, uploads,
                          timers, now, fetchLog, requests, disk, serverOp>>
ServerFrame == UNCHANGED <<chatVars, settingsVars, modelsVars, uploadVars, embedVars>>

(***************************************************************************)
(* Bounds of the model.                                                    *)
(***************************************************************************)
MaxInputLen == 2
MaxSends == 2
MaxCancels == 1
MaxKeyLen == 5
MaxTags == 2
MaxQueries == 2
MaxUploads == 2
MaxTime == 3
MaxRequests == 2
MaxFileBytes == 2
MaxEmbeds == 3
MaxDocs == 2

(***************************************************************************)
(* Helpers on sequences.                                                   *)
(***************************************************************************)
SeqsUpTo(S, n) == UNION {[1..k -> S] : k \in 0..n}

InsertAt(s, i, c) == SubSeq(s, 1, i) \o <<c>> \o SubSeq(s, i + 1, Len(s))

(***************************************************************************)
(* ChatInput                                                               *)
(***************************************************************************)
ChatChars == {"a", " ", "\n"}
WhiteSpace == {" ", "\n"}
Keys == {"Enter", "a"}

\* String.prototype.trim: drops the white space at both ends.
RECURSIVE TrimStart(_)
TrimStart(s) ==
    IF s # <<>> /\ Head(s) \in WhiteSpace THEN TrimStart(Tail(s)) ELSE s

RECURSIVE TrimEnd(_)
TrimEnd(s) ==
    IF s # <<>> /\ s[Len(s)] \in WhiteSpace
    THEN TrimEnd(SubSeq(s, 1, Len(s) - 1))
    ELSE s

Trim(s) == TrimEnd(TrimStart(s))

\* The state of the three props in which sending is refused.
ChatBlocked == isStreamProcessing \/ isFetchLoading \/ ~isLlmModelActive

NoChatOp == [op |-> "none", key |-> "", shiftKey |-> FALSE, blocked |-> FALSE,
             defaultPrevented |-> FALSE, inserted |-> FALSE, sent |-> FALSE]

ChatEvent(op, key, shiftKey, prevented, inserted, sent) ==
    [op |-> op, key |-> key, shiftKey |-> shiftKey, blocked |-> ChatBlocked,
     defaultPrevented |-> prevented, inserted |-> inserted, sent |-> sent]

\* const sendChat = async () => { trim; setChatInput(''); await onSendInput(trimmed) }
sendChat ==
    /\ chatInput' = <<>>
    /\ sendLog' = Append(sendLog,
                         [input |-> Trim(chatInput),
                          isStreamProcessing |-> isStreamProcessing,
                          isFetchLoading |-> isFetchLoading,
                          isLlmModelActive |-> isLlmModelActive])

\* The condition of chatEnterPress with one conjunct lost.
chatEnterPressSendsNoFetchCheck(key, shiftKey) ==
    key = "Enter" /\ ~shiftKey /\ ~isStreamProcessing /\ isLlmModelActive

\* The condition under which chatEnterPress calls sendChat.
chatEnterPressSends(key, shiftKey) ==
    key = "Enter" /\ ~shiftKey /\ ~isStreamProcessing /\ ~isFetchLoading
                  /\ isLlmModelActive

\* The condition under which preventEnterPress calls e.preventDefault().
preventEnterPressPrevents(key, shiftKey) ==
    key = "Enter" /\ ~shiftKey /\ ~isStreamProcessing /\ ~isFetchLoading
                  /\ isLlmModelActive

\* The character a key's default action types into the textarea.
KeyChar(key) == IF key = "Enter" THEN "\n" ELSE key

\* onKeyUp={chatEnterPress}
chatEnterPress(key, shiftKey) ==
    /\ chatEnterPressSends(key, shiftKey) => Len(sendLog) < MaxSends
    /\ IF chatEnterPressSends(key, shiftKey)
       THEN /\ sendChat
            /\ chatOp' = ChatEvent("keyup", key, shiftKey, FALSE, FALSE, TRUE)
       ELSE /\ UNCHANGED <<chatInput, sendLog>>
            /\ chatOp' = ChatEvent("keyup", key, shiftKey, FALSE, FALSE, FALSE)
    /\ UNCHANGED <<isStreamProcessing, isFetchLoading, isLlmModelActive, cancelCount>>
    /\ ChatFrame

\* onKeyDown={preventEnterPress}, followed by the key's default action: unless
\* the handler prevented it, the key's character is typed at the caret (any
\* position) of the textarea, which accepts input only when it is not disabled
\* (disabled={!isLlmModelActive}).
preventEnterPress(key, shiftKey) ==
    LET prevented == preventEnterPressPrevents(key, shiftKey)
        types == ~prevented /\ isLlmModelActive /\ Len(chatInput) < MaxInputLen
    IN  /\ IF types
           THEN \E i \in 0..Len(chatInput) :
                    chatInput' = InsertAt(chatInput, i, KeyChar(key))
           ELSE UNCHANGED chatInput
        /\ chatOp' = ChatEvent("keydown", key, shiftKey, prevented, types, FALSE)
        /\ UNCHANGED <<isStreamProcessing, isFetchLoading, isLlmModelActive,
                       sendLog, cancelCount>>
        /\ ChatFrame

\* onChange={(e) => setChatInput(e.target.value)}: any edit of an enabled textarea.
ChangeInput(value) ==
    /\ isLlmModelActive
    /\ value # chatInput
    /\ chatInput' = value
    /\ chatOp' = ChatEvent("change", "", FALSE, FALSE, FALSE, FALSE)
    /\ UNCHANGED <<isStreamProcessing, isFetchLoading, isLlmModelActive,
                   sendLog, cancelCount>>
    /\ ChatFrame

\* A click on the button that is rendered: the cancel button while a stream is
\* processing, the send button otherwise.  A disabled button takes no click.
ClickCancel ==
    /\ isStreamProcessing
    /\ ~isFetchLoading
    /\ cancelCount < MaxCancels
    /\ cancelCount' = cancelCount + 1
    /\ chatOp' = ChatEvent("cancel", "", FALSE, FALSE, FALSE, FALSE)
    /\ UNCHANGED <<isStreamProcessing, isFetchLoading, isLlmModelActive,
                   chatInput, sendLog>>
    /\ ChatFrame

ClickSend ==
    /\ ~isStreamProcessing
    /\ ~(isStreamProcessing \/ isFetchLoading \/ ~isLlmModelActive)
    /\ Len(sendLog) < MaxSends
    /\ sendChat
    /\ chatOp' = ChatEvent("click", "", FALSE, FALSE, FALSE, TRUE)
    /\ UNCHANGED <<isStreamProcessing, isFetchLoading, isLlmModelActive, cancelCount>>
    /\ ChatFrame

\* The parent renders the component again with other props.
SetProps(stream, fetch, active) ==
    /\ <<stream, fetch, active>> #
           <<isStreamProcessing, isFetchLoading, isLlmModelActive>>
    /\ isStreamProcessing' = stream
    /\ isFetchLoading' = fetch
    /\ isLlmModelActive' = active
    /\ chatOp' = NoChatOp
    /\ UNCHANGED <<chatInput, sendLog, cancelCount>>
    /\ ChatFrame

KeyUp == \E key \in Keys, shiftKey \in BOOLEAN : chatEnterPress(key, shiftKey)

KeyDown == \E key \in Keys, shiftKey \in BOOLEAN : preventEnterPress(key, shiftKey)

Change == \E value \in SeqsUpTo(ChatChars, MaxInputLen) : ChangeInput(value)

Rerender == \E stream, fetch, active \in BOOLEAN : SetProps(stream, fetch, active)

NextChat ==
    \/ KeyUp
    \/ KeyDown
    \/ Change
    \/ ClickSend
    \/ ClickCancel
    \/ Rerender

InitChatVars ==
    /\ isStreamProcessing = FALSE
    /\ isFetchLoading = FALSE
    /\ isLlmModelActive = FALSE
    /\ chatInput = <<>>
    /\ sendLog = <<>>
    /\ cancelCount = 0
    /\ chatOp = NoChatOp

(***************************************************************************)
(* SettingsForm                                                            *)
(***************************************************************************)
LowerCase == {"a", "b", "c", "d", "e", "f", "g", "h", "i", "j", "k", "l", "m",
              "n", "o", "p", "q", "r", "s", "t", "u", "v", "w", "x", "y", "z"}
UpperCase == {"H", "T", "P"}
Digits == {"0", "1", "2", "3", "4", "5", "6", "7", "8", "9"}

\* The classes of the regular expression: \w is [A-Za-z0-9_], \d is [0-9].
WordChars == LowerCase \cup UpperCase \cup Digits \cup {"_"}
LabelChars == WordChars \cup {"-"}

\* The texts the settings form works with, character by character.
T_http == <<"h", "t", "t", "p">>
T_sep == <<":", "/", "/">>
T_localhost == <<"l", "o", "c", "a", "l", "h", "o", "s", "t">>
T_api == <<"a", "p", "i">>
T_openai == <<"o", "p", "e", "n", "a", "i">>
T_together == <<"t", "o", "g", "e", "t", "h", "e", "r">>
T_mistral == <<"m", "i", "s", "t", "r", "a", "l">>
T_com == <<"c", "o", "m">>
T_xyz == <<"x", "y", "z">>
T_ai == <<"a", "i">>
T_port == <<":", "1", "1", "4", "3", "4">>
T_dot == <<".">>

UrlOllama == T_http \o T_sep \o T_localhost \o T_port
UrlOpenAI == T_http \o <<"s">> \o T_sep \o T_api \o T_dot \o T_openai \o T_dot \o T_com
UrlTogether == T_http \o <<"s">> \o T_sep \o T_api \o T_dot \o T_together \o T_dot \o T_xyz
UrlMistral == T_http \o <<"s">> \o T_sep \o T_api \o T_dot \o T_mistral \o T_dot \o T_ai

\* const modelListVariant = [...]: the values of the Model List dropdown.
modelListVariant == {"ollama", "openai", "manual"}

\* const urls = [...]: the preset badges.
urls == <<[url |-> UrlOllama, modelType |-> "ollama"],
          [url |-> UrlOpenAI, modelType |-> "openai"],
          [url |-> UrlTogether, modelType |-> "openai"],
          [url |-> UrlMistral, modelType |-> "openai"]>>

\* ---- urlPattern = /^(https?:\/\/)(localhost|[\w-]+(\.[\w-]+)+)(:\d+)?$/ ----
\* The matcher follows the expression from left to right; each step maps the
\* positions reached so far to the positions reachable after the next element
\* (position p means: the first p - 1 characters are consumed).

LitAt(u, p, lit) ==
    /\ p + Len(lit) - 1 <= Len(u)
    /\ SubSeq(u, p, p + Len(lit) - 1) = lit

\* One or more characters of class, starting at p.
RunEnds(u, p, class) ==
    {q \in (p + 1)..(Len(u) + 1) : \A i \in p..(q - 1) : u[i] \in class}

\* ^(https?:\/\/)
AfterScheme(u) ==
    LET afterHttp == IF LitAt(u, 1, T_http) THEN {5} ELSE {}
        afterS == afterHttp \cup {p + 1 : p \in {q \in afterHttp : LitAt(u, q, <<"s">>)}}
    IN  {p + 3 : p \in {q \in afterS : LitAt(u, q, T_sep)}}

\* (\.[\w-]+) applied once to a set of positions.
DotLabel(u, P) ==
    UNION {RunEnds(u, p + 1, LabelChars) : p \in {q \in P : LitAt(u, q, T_dot)}}

\* (\.[\w-]+)+ : one or more applications.
RECURSIVE DotLabels(_, _, _)
DotLabels(u, P, n) ==
    IF n = 0 \/ P = {} THEN {}
    ELSE LET Q == DotLabel(u, P) IN Q \cup DotLabels(u, Q, n - 1)

\* (localhost|[\w-]+(\.[\w-]+)+)
AfterHost(u, P) ==
    UNION {(IF LitAt(u, p, T_localhost) THEN {p + Len(T_localhost)} ELSE {})
           \cup DotLabels(u, RunEnds(u, p, LabelChars), Len(u)) : p \in P}

\* (:\d+)?
AfterPort(u, P) ==
    P \cup UNION {RunEnds(u, p + 1, Digits) : p \in {q \in P : LitAt(u, q, <<":">>)}}

\* The expression without its closing $: a match need not reach the end.
urlPatternTestUnanchored(u) ==
    AfterPort(u, AfterHost(u, AfterScheme(u))) # {}

\* urlPattern.test(u)
urlPatternTest(u) ==
    (Len(u) + 1) \in AfterPort(u, AfterHost(u, AfterScheme(u)))

\* apiKey: z.union([z.string().min(5), z.literal('')])
apiKeyValid(k) == Len(k) >= 5 \/ k = <<>>

\* SettingsSchema: the url matches, the key is valid, the variant is a string
\* (every form value of the model is a string).
SettingsSchemaValid(url, apiKey, variant) ==
    urlPatternTest(url) /\ apiKeyValid(apiKey)

\* setSettings of the settings store: the record is overwritten wholesale.
setSettings(variant, url, apiKey) ==
    [modelVariant |-> variant, baseUrl |-> url, token |-> apiKey]

NoSettingsOp == [op |-> "none", badge |-> 0, called |-> <<>>]

\* The useEffect of the form: the form takes the stored values (?? '').
FormFromStore(store) ==
    /\ formUrl' = store.baseUrl
    /\ formApiKey' = store.token
    /\ formVariant' = store.modelVariant

\* The dialog is opened: the form is mounted and its effect runs.
OpenDialog ==
    /\ ~dialogOpen
    /\ dialogOpen' = TRUE
    /\ FormFromStore(settings)
    /\ settingsOp' = [NoSettingsOp EXCEPT !.op = "open"]
    /\ UNCHANGED settings
    /\ SettingsFrame

\* The url field with a change handler that also resets the variant.
TypeUrlResetsVariant(url) ==
    /\ dialogOpen
    /\ url # formUrl
    /\ formUrl' = url
    /\ formVariant' = "manual"
    /\ settingsOp' = [NoSettingsOp EXCEPT !.op = "typeUrl"]
    /\ UNCHANGED <<formApiKey, dialogOpen, settings>>
    /\ SettingsFrame

\* <Input {...field} /> of the url field: onChange stores what was typed.
TypeUrl(url) ==
    /\ dialogOpen
    /\ url # formUrl
    /\ formUrl' = url
    /\ settingsOp' = [NoSettingsOp EXCEPT !.op = "typeUrl"]
    /\ UNCHANGED <<formApiKey, formVariant, dialogOpen, settings>>
    /\ SettingsFrame

\* <Input {...field} /> of the apiKey field.
TypeApiKey(apiKey) ==
    /\ dialogOpen
    /\ apiKey # formApiKey
    /\ formApiKey' = apiKey
    /\ settingsOp' = [NoSettingsOp EXCEPT !.op = "typeApiKey"]
    /\ UNCHANGED <<formUrl, formVariant, dialogOpen, settings>>
    /\ SettingsFrame

\* onSelect of a CommandItem: form.setValue('modelListVariant', model.value)
SelectVariant(value) ==
    /\ dialogOpen
    /\ value # formVariant
    /\ formVariant' = value
    /\ settingsOp' = [NoSettingsOp EXCEPT !.op = "selectVariant"]
    /\ UNCHANGED <<formUrl, formApiKey, dialogOpen, settings>>
    /\ SettingsFrame

\* setFormValues with the variant taken from the form, not from modelType.
setFormValuesKeepVariant(url, modelType) ==
    /\ formUrl' = url
    /\ formVariant' = formVariant

\* const setFormValues = (url, modelType) => {...}
setFormValues(url, modelType) ==
    /\ formUrl' = url
    /\ formVariant' = IF modelType = "ollama" THEN "ollama"
                      ELSE IF modelType = "openai" THEN "openai"
                      ELSE "manual"

\* onClick of badge i: setFormValues(url.url, url.modelType)
ClickBadge(i) ==
    /\ dialogOpen
    /\ setFormValues(urls[i].url, urls[i].modelType)
    /\ settingsOp' = [NoSettingsOp EXCEPT !.op = "badge", !.badge = i]
    /\ UNCHANGED <<formApiKey, dialogOpen, settings>>
    /\ SettingsFrame

\* form.handleSubmit(onSubmit): the resolver validates the form values; onSubmit
\* runs only when they are valid: setSettings(...); setDialogOpen(false).  The
\* form's effect then runs on the changed store.
SubmitSettings ==
    /\ dialogOpen
    /\ SettingsFrame
    /\ IF SettingsSchemaValid(formUrl, formApiKey, formVariant)
       THEN /\ settings' = setSettings(formVariant, formUrl, formApiKey)
            /\ dialogOpen' = FALSE
            /\ FormFromStore(settings')
            /\ settingsOp' = [NoSettingsOp EXCEPT
                                 !.op = "submit",
                                 !.called = <<formVariant, formUrl, formApiKey>>]
       ELSE /\ settingsOp' = [NoSettingsOp EXCEPT !.op = "submit"]
            /\ UNCHANGED <<formUrl, formApiKey, formVariant, dialogOpen, settings>>

\* ---- what the user can type ----
T_ab == <<"a", ".", "b">>
T_https == T_http \o <<"s">>

UrlInputs ==
    {urls[i].url : i \in DOMAIN urls} \cup
    { <<>>,
      T_http \o T_sep \o T_localhost,
      T_https \o T_sep \o T_localhost \o <<":", "8", "0">>,
      T_http \o T_sep \o T_ab,
      T_https \o T_sep \o <<"a", "-", "b", ".", "c", "_", "d", ":", "8">>,
      T_ab,
      <<"f", "t", "p">> \o T_sep \o T_ab,
      <<"H", "T", "T", "P">> \o T_sep \o T_ab,
      T_http \o <<":", "/">> \o T_ab,
      T_http \o T_sep \o <<"a">>,
      T_http \o T_sep \o T_localhost \o <<"x">>,
      T_http \o T_sep \o <<"a", ".", ".", "b">>,
      T_http \o T_sep \o <<".", "a">>,
      T_http \o T_sep \o <<"a", ".">>,
      T_http \o T_sep \o T_ab \o <<"/">>,
      T_http \o T_sep \o T_ab \o <<"/", "v", "1">>,
      T_http \o T_sep \o T_ab \o <<":">>,
      T_http \o T_sep \o T_ab \o <<":", "x">>,
      T_http \o T_sep \o T_ab \o <<":", "8", "/">>,
      T_http \o T_sep \o T_ab \o <<" ">>,
      T_https \o T_sep \o T_localhost \o T_port \o <<"/", "a", "p", "i">> }

ApiKeyInputs == {[i \in 1..n |-> "k"] : n \in 0..MaxKeyLen}

\* What the store holds when the page is loaded: nothing yet ('' stands for a
\* value that is not set), or settings saved earlier.
StoredSettings ==
    { setSettings("", <<>>, <<>>),
      setSettings("ollama", UrlOllama, <<>>),
      setSettings("openai", UrlOpenAI, [i \in 1..5 |-> "k"]) }

InitSettingsVars ==
    /\ settings = setSettings("", <<>>, <<>>)
    /\ dialogOpen = FALSE
    /\ formUrl = <<>>
    /\ formApiKey = <<>>
    /\ formVariant = ""
    /\ settingsOp = NoSettingsOp

EditUrl == \E url \in UrlInputs : TypeUrl(url)

EditApiKey == \E apiKey \in ApiKeyInputs : TypeApiKey(apiKey)

ChooseVariant == \E value \in modelListVariant : SelectVariant(value)

Badge == \E i \in DOMAIN urls : ClickBadge(i)

NextSettings ==
    \/ OpenDialog
    \/ EditUrl
    \/ EditApiKey
    \/ ChooseVariant
    \/ Badge
    \/ SubmitSettings

(***************************************************************************)
(* useModelList: the query function                                        *)
(***************************************************************************)
\* What api.getTag can return: a list of tags, each with a name.
TagNames == {"llama3", "nomic"}
TagLists == SeqsUpTo([name : TagNames], MaxTags)

\* What api.getModelList can return: a list of model descriptors.
ModelDescriptors ==
    {[id |-> "gpt-4", object |-> "model", created |-> 1, type |-> "chat"],
     [id |-> "ada", object |-> "model", created |-> 2, type |-> "embedding"]}
ModelLists == SeqsUpTo(ModelDescriptors, MaxTags)

\* The variants the store can hold: the three of the form, '' when none was
\* ever chosen, and a value saved by another version of the application.
StoredVariants == modelListVariant \cup {"", "lmstudio"}

\* The query function at rest.  A running or finished one records the api
\* function it awaits, the number of api calls made before it started and
\* what the awaited call returned.
NoQuery == [status |-> "idle", awaits |-> "none", callsBefore |-> 0, returned |-> <<>>]

\* models.map((model) => ({ id: model.name, object: 'model', created: 0, type: null }))
TagsToModels(tags) ==
    [i \in DOMAIN tags |->
        [id |-> tags[i].name, object |-> "model", created |-> 0, type |-> "null"]]

\* The switch of the query function with the first two cases exchanged.
queryFnCallSwapped(variant) ==
    IF variant = "ollama" THEN "getModelList"
    ELSE IF variant = "openai" THEN "getTag"
    ELSE "none"

\* switch (modelVariant): the api function the query function calls.
queryFnCall(variant) ==
    IF variant = "ollama" THEN "getTag"
    ELSE IF variant = "openai" THEN "getModelList"
    ELSE "none"

\* The arguments of that call.
queryFnArgs(call) ==
    IF call = "getTag" THEN <<settings.baseUrl, embeddedOnly>>
    ELSE <<settings.baseUrl, settings.token, embeddedOnly>>

\* queryFn, up to its await: the call is made; 'manual' and every other variant
\* return [] at once.
QueryFnStart ==
    /\ query.status = "idle"
    /\ Len(apiCalls) < MaxQueries
    /\ LET call == queryFnCall(settings.modelVariant)
       IN  IF call = "none"
           THEN /\ models' = <<>>
                /\ query' = [NoQuery EXCEPT !.status = "success",
                                             !.callsBefore = Len(apiCalls)]
                /\ UNCHANGED apiCalls
           ELSE /\ apiCalls' = Append(apiCalls, [fn |-> call, args |-> queryFnArgs(call)])
                /\ query' = [NoQuery EXCEPT !.status = "pending", !.awaits = call,
                                             !.callsBefore = Len(apiCalls)]
                /\ UNCHANGED models
    /\ UNCHANGED <<embeddedOnly, settings>>
    /\ ModelsFrame

\* await api.getTag(...) returns: the tags are mapped to descriptors.
GetTagReturns(tags) ==
    /\ query.status = "pending"
    /\ query.awaits = "getTag"
    /\ models' = TagsToModels(tags)
    /\ query' = [query EXCEPT !.status = "success", !.returned = tags]
    /\ UNCHANGED <<embeddedOnly, settings, apiCalls>>
    /\ ModelsFrame

\* await api.getModelList(...) returns: the list is returned as it is.
GetModelListReturns(list) ==
    /\ query.status = "pending"
    /\ query.awaits = "getModelList"
    /\ models' = list
    /\ query' = [query EXCEPT !.status = "success", !.returned = list]
    /\ UNCHANGED <<embeddedOnly, settings, apiCalls>>
    /\ ModelsFrame

\* The awaited call throws: the query ends in its error state.
ApiCallThrows ==
    /\ query.status = "pending"
    /\ query' = [query EXCEPT !.status = "error"]
    /\ UNCHANGED <<embeddedOnly, settings, apiCalls, models>>
    /\ ModelsFrame

\* The query runs again (a refetch, or its key changed with the settings).
Refetch(stored) ==
    /\ query.status \in {"success", "error"}
    /\ Len(apiCalls) < MaxQueries
    /\ settings' = stored
    /\ query' = NoQuery
    /\ UNCHANGED <<embeddedOnly, apiCalls, models>>
    /\ ModelsFrame

QuerySettings ==
    {setSettings(v, u, t) : v \in StoredVariants,
                            u \in {UrlOllama, UrlOpenAI},
                            t \in {<<>>, [i \in 1..5 |-> "k"]}}

InitModelsVars ==
    /\ embeddedOnly = FALSE
    /\ query = NoQuery
    /\ apiCalls = <<>>
    /\ models = <<>>

TagsArrive == \E tags \in TagLists : GetTagReturns(tags)

ModelListArrives == \E list \in ModelLists : GetModelListReturns(list)

QueryAgain == \E stored \in QuerySettings : Refetch(stored)

NextModels ==
    \/ QueryFnStart
    \/ TagsArrive
    \/ ModelListArrives
    \/ ApiCallThrows
    \/ QueryAgain

(***************************************************************************)
(* The upload page                                                         *)
(***************************************************************************)
\* const maxFileSizeMb = 30
maxFileSizeMb == 30
MaxFileSizeBytes == maxFileSizeMb * 1024 * 1024

\* setTimeout(..., 2000) and setTimeout(..., 3000), in seconds.
FadeDelay == 2
ResetDelay == 3

\* What a selection can hand to onFileSelected: a File, or a value that is no
\* File (e.target.files[0] of an empty list).
NotAFile == [name |-> "", size |-> -1, type |-> "not a file"]

SelectableFiles ==
    {[name |-> "a.txt", size |-> 3, type |-> "text/plain"],
     [name |-> "e.txt", size |-> 0, type |-> "text/plain"],
     [name |-> "b.pdf", size |-> MaxFileSizeBytes, type |-> "application/pdf"],
     [name |-> "b.pdf", size |-> MaxFileSizeBytes + 1, type |-> "application/pdf"],
     [name |-> "c.png", size |-> 3, type |-> "image/png"]}

SelectableValues == SelectableFiles \cup {NotAFile}

\* The transform of formSchema: a File is kept, anything else becomes null.
IsFile(value) == value # NotAFile

\* The superRefine of formSchema with the type check lost.
formSchemaIssuesNoTypeCheck(value) ==
    IF ~IsFile(value) THEN {"Not a file"}
    ELSE IF value.size > maxFileSizeMb * 1024 * 1024
         THEN {"Max file size allowed is 30MB"}
         ELSE {}

\* The superRefine of formSchema: the issues it adds for the selected value.
formSchemaIssues(value) ==
    IF ~IsFile(value) THEN {"Not a file"}
    ELSE (IF value.size > maxFileSizeMb * 1024 * 1024
          THEN {"Max file size allowed is 30MB"} ELSE {})
         \cup
         (IF value.type \notin {"application/pdf", "text/plain"}
          THEN {"File must be an document (pdf, txt)"} ELSE {})

NoValue == -1

\* An invocation of onSubmit that has issued its fetch; step is the value of
\* its variable step once the loop has computed one.
NewUpload(file) ==
    [file |-> file, pc |-> "fetch", received |-> 0, step |-> NoValue, ended |-> "",
     throttleOpen |-> FALSE, throttlePending |-> NoValue]

\* parseFloat((receivedLength / size).toFixed(2)) * 100, for 0 <= received <= size
\* and size > 0: the quotient rounded to two decimals, digit by digit, as a
\* percentage.
ProgressStep(received, size) ==
    LET q == received \div size
        r0 == received % size
        d1 == (10 * r0) \div size
        r1 == (10 * r0) % size
        d2 == (10 * r1) \div size
        r2 == (10 * r1) % size
        up == IF 2 * r2 >= size THEN 1 ELSE 0
    IN  100 * q + 10 * d1 + d2 + up

\* updateProgress(percent) of invocation u: lodash.throttle(setProgress, 100,
\* {leading, trailing}).  Outside the 100 ms window the call goes through and
\* opens the window; inside it the value waits for the window's end.
updateProgress(u, percent) ==
    IF uploads[u].throttleOpen
    THEN [progress |-> progress,
          upload |-> [uploads[u] EXCEPT !.throttlePending = percent]]
    ELSE [progress |-> percent,
          upload |-> [uploads[u] EXCEPT !.throttleOpen = TRUE]]

\* The 100 ms window of invocation u ends: a waiting value goes through (and
\* the window runs once more), otherwise the window closes.
ThrottleExpires(u) ==
    /\ uploads[u].throttleOpen
    /\ IF uploads[u].throttlePending # NoValue
       THEN /\ progress' = uploads[u].throttlePending
            /\ uploads' = [uploads EXCEPT ![u].throttlePending = NoValue]
       ELSE /\ uploads' = [uploads EXCEPT ![u].throttleOpen = FALSE]
            /\ UNCHANGED progress
    /\ UNCHANGED <<fileLoading, filename, filesize, fadeOut, formFile, fileErrors,
                   timers, now, toasts, fetchLog>>
    /\ UploadFrame

\* onFileSelected(file): form.setValue; form.trigger(); when valid,
\* form.handleSubmit(onSubmit)() and the four setters.  handleSubmit validates
\* again and calls onSubmit, which runs up to its await of fetch: all of it
\* happens before the next event is handled.
onFileSelected(value) ==
    LET issues == formSchemaIssues(value)
    IN  /\ formFile' = value
        /\ fileErrors' = issues
        /\ IF issues = {}
           THEN /\ Len(uploads) < MaxUploads
                /\ uploads' = Append(uploads, NewUpload(value))
                /\ fetchLog' = Append(fetchLog, value)
                /\ filename' = value.name
                /\ filesize' = value.size
                /\ fileLoading' = TRUE
                /\ fadeOut' = FALSE
           ELSE UNCHANGED <<uploads, fetchLog, filename, filesize, fileLoading,
                            fadeOut>>
        /\ UNCHANGED <<progress, timers, now, toasts>>
        /\ UploadFrame

\* The finally block as a plain continuation of the try block: it is not
\* reached when the try block threw or returned.
onSubmitFinallyOnlyOnSuccess(u, ended) ==
    /\ uploads' = [uploads EXCEPT ![u].pc = "done", ![u].ended = ended]
    /\ IF ended = "break"
       THEN /\ toasts' = Append(toasts,
                    [kind |-> "success", title |-> "Document uploaded successfully!",
                     description |-> uploads[u].file.name, upload |-> u])
            /\ timers' = timers \cup
                    {[kind |-> "fade", upload |-> u, due |-> now + FadeDelay, rank |-> 0],
                     [kind |-> "reset", upload |-> u, due |-> now + ResetDelay, rank |-> 0]}
       ELSE UNCHANGED <<toasts, timers>>
    /\ UNCHANGED <<progress, fileLoading, filename, filesize, fadeOut, formFile,
                   fileErrors, now, fetchLog>>
    /\ UploadFrame

\* The finally block of onSubmit: toast.success and the two setTimeout calls.
\* It runs however the try block ended: by the break of the loop, in the catch
\* block (after console.error), or by the return.
onSubmitFinally(u, ended) ==
    LET rank == Cardinality({v \in DOMAIN uploads : uploads[v].pc = "done"})
    IN  /\ toasts' = Append(toasts,
                [kind |-> "success", title |-> "Document uploaded successfully!",
                 description |-> uploads[u].file.name, upload |-> u])
        /\ timers' = timers \cup
                {[kind |-> "fade", upload |-> u, due |-> now + FadeDelay, rank |-> rank],
                 [kind |-> "reset", upload |-> u, due |-> now + ResetDelay, rank |-> rank]}
        /\ uploads' = [uploads EXCEPT ![u].pc = "done", ![u].ended = ended]
        /\ UNCHANGED <<progress, fileLoading, filename, filesize, fadeOut, formFile,
                       fileErrors, now, fetchLog>>
        /\ UploadFrame

\* await fetch(...) resolves with an ok response that has a body: the reader
\* is taken and the first read awaited.
FetchOk(u) ==
    /\ uploads[u].pc = "fetch"
    /\ uploads' = [uploads EXCEPT ![u].pc = "read"]
    /\ UNCHANGED <<progress, fileLoading, filename, filesize, fadeOut, formFile,
                   fileErrors, timers, now, toasts, fetchLog>>
    /\ UploadFrame

\* await fetch(...) ends otherwise: a response that is not ok (throw new
\* Error('Failed to upload'), caught), a rejected fetch (caught), or a response
\* without a body (return).  The finally block follows.
FetchFails(u, outcome) ==
    /\ uploads[u].pc = "fetch"
    /\ outcome \in {"notOk", "fetchThrows", "noBody"}
    /\ onSubmitFinally(u, IF outcome = "noBody" THEN "return" ELSE "catch")

\* The lengths in which the next chunk of the body can arrive.  The route
\* echoes the file, so the body has file.size bytes; a body of less than 1 KiB
\* arrives in any chunking, a larger one in halves or at once.
ChunkLengths(size, received) ==
    IF size < 1024 THEN 1..(size - received)
    ELSE IF received = 0 THEN {size \div 2, size}
    ELSE {size - received}

\* await reader.read() yields a chunk: receivedLength += value.length;
\* updateProgress(step).
ReadChunk(u, length) ==
    /\ uploads[u].pc = "read"
    /\ length \in ChunkLengths(uploads[u].file.size, uploads[u].received)
    /\ LET received == uploads[u].received + length
           step == ProgressStep(received, uploads[u].file.size)
           after == updateProgress(u, step)
       IN  /\ progress' = after.progress
           /\ uploads' = [uploads EXCEPT ![u] = [after.upload EXCEPT
                                                     !.received = received,
                                                     !.step = step]]
    /\ UNCHANGED <<fileLoading, filename, filesize, fadeOut, formFile, fileErrors,
                   timers, now, toasts, fetchLog>>
    /\ UploadFrame

\* await reader.read() yields done: break, then the finally block.
ReadDone(u) ==
    /\ uploads[u].pc = "read"
    /\ uploads[u].received = uploads[u].file.size
    /\ onSubmitFinally(u, "break")

\* await reader.read() rejects: caught, then the finally block.
ReadThrows(u) ==
    /\ uploads[u].pc = "read"
    /\ onSubmitFinally(u, "catch")

\* Timer t runs before timer s when it is due earlier; two timers due in the
\* same second were set in different seconds unless they are of the same kind,
\* and then they run in the order in which they were set.
RunsBefore(t, s) ==
    \/ t.due < s.due
    \/ t.due = s.due /\ t.kind = s.kind /\ t.rank < s.rank

\* setTimeout(() => { setFadeOut(true) }, 2000) of invocation t.upload runs.
FadeTimerRuns(t) ==
    /\ t \in timers
    /\ t.kind = "fade"
    /\ t.due <= now
    /\ \A s \in timers : ~RunsBefore(s, t)
    /\ fadeOut' = TRUE
    /\ timers' = timers \ {t}
    /\ UNCHANGED <<progress, fileLoading, filename, filesize, formFile, fileErrors,
                   uploads, now, toasts, fetchLog>>
    /\ UploadFrame

\* setTimeout(() => { setFileLoading(false); setFilename(''); setFilesize(0);
\* updateProgress(0) }, 3000) of invocation t.upload runs.
ResetTimerRuns(t) ==
    /\ t \in timers
    /\ t.kind = "reset"
    /\ t.due <= now
    /\ \A s \in timers : ~RunsBefore(s, t)
    /\ fileLoading' = FALSE
    /\ filename' = ""
    /\ filesize' = 0
    /\ LET after == updateProgress(t.upload, 0)
       IN  /\ progress' = after.progress
           /\ uploads' = [uploads EXCEPT ![t.upload] = after.upload]
    /\ timers' = timers \ {t}
    /\ UNCHANGED <<fadeOut, formFile, fileErrors, now, toasts, fetchLog>>
    /\ UploadFrame

\* A second passes: every timer due by now has run, and so has every 100 ms
\* throttle window.
Tick ==
    /\ now < MaxTime
    /\ \A t \in timers : t.due > now
    /\ \A u \in DOMAIN uploads : ~uploads[u].throttleOpen
    /\ now' = now + 1
    /\ UNCHANGED <<progress, fileLoading, filename, filesize, fadeOut, formFile,
                   fileErrors, uploads, timers, toasts, fetchLog>>
    /\ UploadFrame

InitUploadVars ==
    /\ progress = 0
    /\ fileLoading = FALSE
    /\ filename = ""
    /\ filesize = 0
    /\ fadeOut = FALSE
    /\ formFile = NotAFile
    /\ fileErrors = {}
    /\ uploads = <<>>
    /\ timers = {}
    /\ now = 0
    /\ toasts = <<>>
    /\ fetchLog = <<>>

SelectFile == \E value \in SelectableValues : onFileSelected(value)

ResponseArrives == \E u \in DOMAIN uploads : FetchOk(u)

ResponseFails ==
    \E u \in DOMAIN uploads, outcome \in {"notOk", "fetchThrows", "noBody"} :
        FetchFails(u, outcome)

ChunkArrives ==
    \E u \in DOMAIN uploads :
        \E length \in ChunkLengths(uploads[u].file.size, uploads[u].received) :
            ReadChunk(u, length)

BodyEnds == \E u \in DOMAIN uploads : ReadDone(u)

BodyFails == \E u \in DOMAIN uploads : ReadThrows(u)

ThrottleWindowEnds == \E u \in DOMAIN uploads : ThrottleExpires(u)

FadeTimer == \E t \in timers : FadeTimerRuns(t)

ResetTimer == \E t \in timers : ResetTimerRuns(t)

NextUpload ==
    \/ SelectFile
    \/ ResponseArrives
    \/ ResponseFails
    \/ ChunkArrives
    \/ BodyEnds
    \/ BodyFails
    \/ ThrottleWindowEnds
    \/ FadeTimer
    \/ ResetTimer
    \/ Tick

(***************************************************************************)
(* The upload page: the file list and embedDocumentPost                    *)
(***************************************************************************)
\* What await api.postEmbedDocument(...) can yield: a response that reports
\* success, or one that reports a failure with its message.
EmbedErrorMessages == {"model not found", "no such document"}

EmbedResponses ==
    {[success |-> TRUE, errorMessage |-> ""]}
    \cup {[success |-> FALSE, errorMessage |-> m] : m \in EmbedErrorMessages}

NoEmbedResponse == [success |-> FALSE, errorMessage |-> ""]

\* The embedding service marks the row of the document: isEmbedded and
\* embedModel are updated once embedding succeeds.
markEmbedded(rows, documentId) ==
    [i \in DOMAIN rows |->
        IF rows[i].id = documentId
        THEN [rows[i] EXCEPT !.isEmbedded = TRUE, !.embedModel = "nomic-embed-text"]
        ELSE rows[i]]

\* loadFiles(): setFilesLoading(true) and, in a transition, await getFiles().
loadFiles ==
    /\ filesLoading' = TRUE
    /\ loadsPending' = loadsPending + 1

\* The transition of loadFiles goes on: getFiles() returned the rows of the
\* table; setFiles(fileList); setFilesLoading(false).
GetFilesReturns ==
    /\ loadsPending > 0
    /\ loadsPending' = loadsPending - 1
    /\ files' = fileRows
    /\ filesLoading' = FALSE
    /\ UNCHANGED <<isEmbedding, embeds, toasts, fileRows>>
    /\ EmbedFrame

\* onClick of the Embedd button of row i of the list, rendered for a file that
\* is not embedded and disabled while isEmbedding: embedDocumentPost(file.id)
\* runs up to its await.
ClickEmbed(i) ==
    /\ i \in DOMAIN files
    /\ ~files[i].isEmbedded
    /\ ~isEmbedding
    /\ Len(embeds) < MaxEmbeds
    /\ isEmbedding' = TRUE
    /\ embeds' = Append(embeds, [documentId |-> files[i].id, pc |-> "await",
                                 response |-> NoEmbedResponse])
    /\ UNCHANGED <<files, filesLoading, loadsPending, toasts, fileRows>>
    /\ EmbedFrame

\* The toast of embedDocumentPost for a response.
embedToast(response) ==
    IF response.success
    THEN [kind |-> "success", title |-> "Document embedded successfully",
          description |-> "", upload |-> 0]
    ELSE [kind |-> "error", title |-> "Failed to embed document",
          description |-> response.errorMessage, upload |-> 0]

\* The await of invocation e yields a response: the toast, loadFiles() and
\* setIsEmbedding(false).
EmbedResponds(e, response) ==
    /\ embeds[e].pc = "await"
    /\ fileRows' = IF response.success
                   THEN markEmbedded(fileRows, embeds[e].documentId)
                   ELSE fileRows
    /\ toasts' = Append(toasts, embedToast(response))
    /\ loadFiles
    /\ isEmbedding' = FALSE
    /\ embeds' = [embeds EXCEPT ![e].pc = "returned", ![e].response = response]
    /\ UNCHANGED files
    /\ EmbedFrame

\* The await of invocation e throws (the promise is rejected): nothing catches
\* it, so the rest of embedDocumentPost does not run.
EmbedRejects(e) ==
    /\ embeds[e].pc = "await"
    /\ embeds' = [embeds EXCEPT ![e].pc = "rejected"]
    /\ UNCHANGED <<isEmbedding, files, filesLoading, loadsPending, toasts, fileRows>>
    /\ EmbedFrame

\* The page before it is mounted.
InitEmbedVars ==
    /\ isEmbedding = FALSE
    /\ files = <<>>
    /\ filesLoading = TRUE
    /\ loadsPending = 0
    /\ embeds = <<>>

\* The rows of the table after n uploads.
StoredRows ==
    {[i \in 1..n |-> [id |-> i, filename |-> names[i], fileSize |-> i,
                      isEmbedded |-> FALSE, embedModel |-> ""]] :
        n \in 0..MaxDocs, names \in [1..MaxDocs -> {"a.txt", "b.pdf"}]}

Embed == \E i \in DOMAIN files : ClickEmbed(i)

EmbedReturns ==
    \E e \in DOMAIN embeds, response \in EmbedResponses : EmbedResponds(e, response)

EmbedThrows == \E e \in DOMAIN embeds : EmbedRejects(e)

NextEmbed ==
    \/ GetFilesReturns
    \/ Embed
    \/ EmbedReturns
    \/ EmbedThrows

(***************************************************************************)
(* POST /api/documents                                                     *)
(***************************************************************************)
\* What formData.get('file') can yield: null (no such field), a string (a
\* field that is not a file), or a File with a name and its bytes.
MissingField == [kind |-> "missing", value |-> "", name |-> "", bytes |-> <<>>]

StringFields == {[kind |-> "string", value |-> v, name |-> "", bytes |-> <<>>] :
                    v \in {"", "a.txt"}}

FileContents == SeqsUpTo({7, 9}, MaxFileBytes)

FileFields == {[kind |-> "file", value |-> "", name |-> n, bytes |-> b] :
                    n \in {"a.txt", "b.pdf"}, b \in FileContents}

FormFields == {MissingField} \cup StringFields \cup FileFields

NoResponse == [status |-> 0, text |-> "", bytes |-> <<>>]

NoServerOp == [op |-> "none", request |-> 0]

\* The check with its second half lost: only a missing field is refused.
postRefusesOnlyMissing(field) ==
    field.kind = "missing" \/ (field.kind = "string" /\ field.value = "")

\* if (!file || !(file instanceof File)): null and '' are falsy, a string is
\* no File.
postRefuses(field) ==
    \/ field.kind = "missing" \/ (field.kind = "string" /\ field.value = "")
    \/ field.kind # "file"

\* The request arrives: await request.formData(); formData.get('file'); the
\* check; for a File, await file.arrayBuffer().
Post(field) ==
    /\ Len(requests) < MaxRequests
    /\ IF postRefuses(field)
       THEN requests' = Append(requests,
                [field |-> field, pc |-> "responded",
                 response |-> [status |-> 400, text |-> "No file uploaded",
                               bytes |-> <<>>]])
       ELSE requests' = Append(requests,
                [field |-> field, pc |-> "buffered", response |-> NoResponse])
    /\ serverOp' = [op |-> "post", request |-> Len(requests) + 1]
    /\ UNCHANGED <<disk, fileRows>>
    /\ ServerFrame

\* await fs.writeFile(`./uploads/${file.name}`, Buffer.from(fileBuffer)): the
\* file of that name is created or replaced.
WriteFile(r) ==
    /\ requests[r].pc = "buffered"
    /\ disk' = {f \in disk : f.name # requests[r].field.name}
               \cup {[name |-> requests[r].field.name,
                      bytes |-> requests[r].field.bytes]}
    /\ requests' = [requests EXCEPT ![r].pc = "written"]
    /\ serverOp' = [op |-> "write", request |-> r]
    /\ UNCHANGED fileRows
    /\ ServerFrame

\* await db.insert(files).values({ filename, fileSize }): the id is assigned
\* by AUTOINCREMENT, the other columns take their defaults.
InsertRow(r) ==
    /\ requests[r].pc = "written"
    /\ fileRows' = Append(fileRows,
            [id |-> Len(fileRows) + 1,
             filename |-> requests[r].field.name,
             fileSize |-> Len(requests[r].field.bytes),
             isEmbedded |-> FALSE,
             embedModel |-> ""])
    /\ requests' = [requests EXCEPT ![r].pc = "inserted"]
    /\ serverOp' = [op |-> "insert", request |-> r]
    /\ UNCHANGED disk
    /\ ServerFrame

\* The body of the response: controller.enqueue(new Uint8Array(fileBuffer)).
\* Here the stream is closed without the bytes.
responseBodyEmpty(r) == <<>>

\* The body of the response: controller.enqueue(new Uint8Array(fileBuffer)).
responseBody(r) == requests[r].field.bytes

\* return new Response(readableStream): the status defaults to 200.
Respond(r) ==
    /\ requests[r].pc = "inserted"
    /\ requests' = [requests EXCEPT
            ![r].pc = "responded",
            ![r].response = [status |-> 200, text |-> "", bytes |-> responseBody(r)]]
    /\ serverOp' = [op |-> "respond", request |-> r]
    /\ UNCHANGED <<disk, fileRows>>
    /\ ServerFrame

InitServerVars ==
    /\ requests = <<>>
    /\ disk = {}
    /\ fileRows = <<>>
    /\ serverOp = NoServerOp

RequestArrives == \E field \in FormFields : Post(field)

FileWritten == \E r \in DOMAIN requests : WriteFile(r)

RowInserted == \E r \in DOMAIN requests : InsertRow(r)

ResponseSent == \E r \in DOMAIN requests : Respond(r)

NextServer ==
    \/ RequestArrives
    \/ FileWritten
    \/ RowInserted
    \/ ResponseSent

(***************************************************************************)
(* The specifications, one per component.                                  *)
(***************************************************************************)
InitChat ==
    /\ InitChatVars
    /\ InitSettingsVars
    /\ InitModelsVars
    /\ InitUploadVars
    /\ InitEmbedVars
    /\ InitServerVars

SpecChat == InitChat /\ [][NextChat]_vars

InitSettings ==
    /\ InitChatVars
    /\ settings \in StoredSettings
    /\ dialogOpen = FALSE
    /\ formUrl = <<>>
    /\ formApiKey = <<>>
    /\ formVariant = ""
    /\ settingsOp = NoSettingsOp
    /\ InitModelsVars
    /\ InitUploadVars
    /\ InitEmbedVars
    /\ InitServerVars

SpecSettings == InitSettings /\ [][NextSettings]_vars

InitModels ==
    /\ InitChatVars
    /\ settings \in QuerySettings
    /\ dialogOpen = FALSE
    /\ formUrl = <<>>
    /\ formApiKey = <<>>
    /\ formVariant = ""
    /\ settingsOp = NoSettingsOp
    /\ embeddedOnly \in BOOLEAN
    /\ query = NoQuery
    /\ apiCalls = <<>>
    /\ models = <<>>
    /\ InitUploadVars
    /\ InitEmbedVars
    /\ InitServerVars

SpecModels == InitModels /\ [][NextModels]_vars

InitUpload ==
    /\ InitChatVars
    /\ InitSettingsVars
    /\ InitModelsVars
    /\ InitUploadVars
    /\ InitEmbedVars
    /\ InitServerVars

SpecUpload == InitUpload /\ [][NextUpload]_vars

InitServer ==
    /\ InitChatVars
    /\ InitSettingsVars
    /\ InitModelsVars
    /\ InitUploadVars
    /\ InitEmbedVars
    /\ InitServerVars

SpecServer == InitServer /\ [][NextServer]_vars


\* The page is mounted on a table that holds the rows of earlier uploads: the
\* effect on fileLoading has called loadFiles().
InitEmbed ==
    /\ InitChatVars
    /\ InitSettingsVars
    /\ InitModelsVars
    /\ InitUploadVars
    /\ isEmbedding = FALSE
    /\ files = <<>>
    /\ filesLoading = TRUE
    /\ loadsPending = 1
    /\ embeds = <<>>
    /\ requests = <<>>
    /\ disk = {}
    /\ fileRows \in StoredRows
    /\ serverOp = NoServerOp

SpecEmbed == InitEmbed /\ [][NextEmbed]_vars
(***************************************************************************)
(* The claims.                                                             *)
(***************************************************************************)

\* C1: every call of onSendInput is made in a state where no stream is
\* processing, no fetch is loading and a model is active; an event handled in
\* any other state (Enter key-up with or without shift, a click on the rendered
\* and enabled control) does not call it.
C1_SendOnlyWhenClear ==
    /\ \A i \in DOMAIN sendLog :
           /\ ~sendLog[i].isStreamProcessing
           /\ ~sendLog[i].isFetchLoading
           /\ sendLog[i].isLlmModelActive
    /\ chatOp.blocked => ~chatOp.sent

\* Enter was released while a fetch is loading, after an earlier send went
\* through: the key-up handler ran and sent nothing.
C1_Witness ==
    /\ chatOp.op = "keyup"
    /\ chatOp.key = "Enter"
    /\ ~chatOp.shiftKey
    /\ chatOp.blocked
    /\ isFetchLoading
    /\ ~chatOp.sent
    /\ Len(sendLog) = 1

\* C2: while an invocation of onSubmit has not completed, the progress panel
\* is shown: fileLoading is true and fadeOut is false (the fade-out and the
\* reset come only after that upload completed), also when the file was
\* selected while the timers of an earlier upload were pending.
C2_PanelShownUntilUploadCompletes ==
    \A u \in DOMAIN uploads :
        uploads[u].pc # "done" => (fileLoading /\ ~fadeOut)

\* C3: the step that ends an invocation of onSubmit, however the network call
\* went, shows one success notification naming the submitted file and sets the
\* 2 s fade-out timer and the 3 s reset timer; notifications appear in no other
\* step of the upload flow, and none of them is an error notification.
C3_AlwaysSuccessToast ==
    [][ /\ \A u \in DOMAIN uploads :
              (uploads[u].pc # "done" /\ uploads'[u].pc = "done") =>
                  /\ toasts' = Append(toasts,
                         [kind |-> "success",
                          title |-> "Document uploaded successfully!",
                          description |-> uploads[u].file.name,
                          upload |-> u])
                  /\ timers \subseteq timers'
                  /\ {<<t.kind, t.upload, t.due>> : t \in timers' \ timers}
                        = {<<"fade", u, now + 2>>, <<"reset", u, now + 3>>}
        /\ toasts' # toasts =>
              \E u \in DOMAIN uploads :
                  uploads[u].pc # "done" /\ uploads'[u].pc = "done"
        /\ \A i \in DOMAIN toasts' : toasts'[i].kind = "success"
      ]_vars

\* One invocation ended in the catch block and another by the return for a
\* response without a body; each has its notification.
C3_Witness ==
    /\ Len(uploads) = 2
    /\ uploads[1].ended = "catch"
    /\ uploads[2].ended = "return"
    /\ Len(toasts) = 2
    /\ \A i \in DOMAIN toasts : toasts[i].kind = "success"

\* The selected value is a File of at most 30 MB of type pdf or plain text.
C4_Accepted(value) ==
    /\ value # NotAFile
    /\ value.size <= 30 * 1024 * 1024
    /\ value.type = "application/pdf" \/ value.type = "text/plain"

\* C4: fetch is called only in the step that selects such a value, and with
\* that value; the step that selects any other value issues no fetch, starts
\* no onSubmit and leaves fileLoading, filename, filesize and fadeOut as they
\* were.
C4_FetchOnlyForValidFile ==
    [][ /\ fetchLog' # fetchLog =>
              /\ C4_Accepted(formFile')
              /\ fetchLog' = Append(fetchLog, formFile')
        /\ (formFile' # formFile /\ ~C4_Accepted(formFile')) =>
              /\ fileErrors' # {}
              /\ UNCHANGED <<fetchLog, uploads, fileLoading, filename, filesize,
                             fadeOut>>
      ]_vars

\* A file one byte over the limit was selected while the panel of an upload
\* was shown: nothing but the form changed.
C4_Witness ==
    /\ formFile.name = "b.pdf"
    /\ formFile.size = 30 * 1024 * 1024 + 1
    /\ fileErrors # {}
    /\ Len(fetchLog) = 1
    /\ fetchLog[1].size = 30 * 1024 * 1024
    /\ fileLoading
    /\ filename = "b.pdf"

\* C5: the query function calls api.getTag(baseUrl) and nothing else for
\* 'ollama', and returns one descriptor {id: name, object: 'model', created: 0,
\* type: null} per tag, in order; it calls api.getModelList(baseUrl, token) and
\* nothing else for 'openai'; for 'manual' and any other variant it returns []
\* without a call.
C5_QueryDispatch ==
    query.status # "idle" =>
        LET made == SubSeq(apiCalls, query.callsBefore + 1, Len(apiCalls))
        IN  IF settings.modelVariant = "ollama"
            THEN /\ Len(made) = 1
                 /\ made[1].fn = "getTag"
                 /\ made[1].args[1] = settings.baseUrl
                 /\ query.status = "success" =>
                        /\ Len(models) = Len(query.returned)
                        /\ \A i \in DOMAIN models :
                               models[i] = [id |-> query.returned[i].name,
                                            object |-> "model", created |-> 0,
                                            type |-> "null"]
            ELSE IF settings.modelVariant = "openai"
            THEN /\ Len(made) = 1
                 /\ made[1].fn = "getModelList"
                 /\ made[1].args[1] = settings.baseUrl
                 /\ made[1].args[2] = settings.token
            ELSE /\ made = <<>>
                 /\ query.status = "success"
                 /\ models = <<>>

\* The tag list of an 'ollama' query came back with two tags.
C5_Witness ==
    /\ settings.modelVariant = "ollama"
    /\ query.status = "success"
    /\ Len(models) = 2
    /\ models[1].id = "nomic"
    /\ models[2].id = "llama3"
    /\ Len(apiCalls) = 2

\* The URLs of the four preset badges.
PresetUrls == {UrlOllama, UrlOpenAI, UrlTogether, UrlMistral}

\* C6 as stated: once a URL that is no preset has been typed, the form's
\* variant is 'manual'.
C6_TypedUrlMakesVariantManual ==
    (settingsOp.op = "typeUrl" /\ formUrl \notin PresetUrls)
        => formVariant = "manual"

\* C6 as amended: typing a URL changes the form's URL only; the form's variant
\* stays what it was.
C6_TypedUrlKeepsVariant ==
    [][ settingsOp'.op = "typeUrl" =>
            /\ formVariant' = formVariant
            /\ formApiKey' = formApiKey
            /\ settings' = settings
      ]_vars

\* A URL that is no preset was typed into a form whose variant is 'ollama'.
C6_Witness ==
    /\ settingsOp.op = "typeUrl"
    /\ formUrl \notin PresetUrls
    /\ formUrl # <<>>
    /\ formVariant = "ollama"

\* The variant the claim gives for a preset URL.
C7_Variant(url) ==
    IF url = UrlOllama THEN "ollama"
    ELSE IF url \in {UrlOpenAI, UrlTogether, UrlMistral} THEN "openai"
    ELSE "none"

\* C7: a click on a preset badge sets the form's URL to the badge's URL and the
\* form's variant to 'ollama' for http://localhost:11434 and to 'openai' for the
\* three others, whatever the form held; the stored settings do not change.
C7_BadgeSetsUrlAndVariant ==
    [][ settingsOp'.op = "badge" =>
            /\ formUrl' = urls[settingsOp'.badge].url
            /\ formUrl' \in PresetUrls
            /\ formVariant' = C7_Variant(formUrl')
            /\ settings' = settings
            /\ formApiKey' = formApiKey
            /\ dialogOpen' = dialogOpen
      ]_vars

\* The Together badge was clicked in a form opened on stored 'ollama' settings.
C7_Witness ==
    /\ settingsOp.op = "badge"
    /\ formUrl = UrlTogether
    /\ formVariant = "openai"
    /\ settings.modelVariant = "ollama"
    /\ settings.baseUrl = UrlOllama

\* A dotted domain: labels of letters, digits, '_' and '-', none of them empty,
\* joined by dots, at least two of them.
C8_DottedDomain(h) ==
    /\ h # <<>>
    /\ \A i \in DOMAIN h : h[i] \in LabelChars \cup {"."}
    /\ \E i \in DOMAIN h : h[i] = "."
    /\ h[1] # "."
    /\ h[Len(h)] # "."
    /\ \A i \in 1..(Len(h) - 1) : ~(h[i] = "." /\ h[i + 1] = ".")

\* Nothing, or a colon and digits.
C8_Port(p) ==
    \/ p = <<>>
    \/ /\ Len(p) >= 2
       /\ p[1] = ":"
       /\ \A i \in 2..Len(p) : p[i] \in Digits

\* The shape http(s)://host[:port] with nothing after it.
C8_UrlShape(u) ==
    \E scheme \in {<<"h", "t", "t", "p", ":", "/", "/">>,
                   <<"h", "t", "t", "p", "s", ":", "/", "/">>} :
        /\ Len(u) >= Len(scheme)
        /\ SubSeq(u, 1, Len(scheme)) = scheme
        /\ \E k \in Len(scheme)..Len(u) :
               LET host == SubSeq(u, Len(scheme) + 1, k)
                   port == SubSeq(u, k + 1, Len(u))
               IN  /\ host = T_localhost \/ C8_DottedDomain(host)
                   /\ C8_Port(port)

\* C8: a submission calls setSettings, with the form's variant, URL and key,
\* and closes the dialog exactly when the URL has that shape and the key has
\* length 0 or at least 5; otherwise setSettings is not called, the stored
\* settings stay and the dialog stays open.
C8_SubmitAcceptedIffValid ==
    [][ settingsOp'.op = "submit" =>
            IF C8_UrlShape(formUrl) /\ (Len(formApiKey) = 0 \/ Len(formApiKey) >= 5)
            THEN /\ settingsOp'.called = <<formVariant, formUrl, formApiKey>>
                 /\ ~dialogOpen'
            ELSE /\ settingsOp'.called = <<>>
                 /\ settings' = settings
                 /\ dialogOpen'
      ]_vars

\* A form with a URL with a port and a key of five characters was submitted
\* and accepted.
C8_Witness ==
    /\ settingsOp.op = "submit"
    /\ settingsOp.called # <<>>
    /\ ~dialogOpen
    /\ Len(formApiKey) = 5
    /\ formUrl = <<"h", "t", "t", "p", "s", ":", "/", "/",
                   "a", "-", "b", ".", "c", "_", "d", ":", "8">>
    /\ formVariant = "manual"

\* Request r was handled in this step.
C9_Handled(r) ==
    r \notin DOMAIN requests \/ requests'[r] # requests[r]

C10_BlockedEnterSuppressed ==
    (chatOp.op = "keydown" /\ chatOp.key = "Enter" /\ ~chatOp.shiftKey
        /\ chatOp.blocked)
    => (~chatOp.inserted /\ ~chatOp.sent)

\* C11: for every upload whose response body is read to its end, the progress
\* value computed in the loop never decreases from one chunk to the next, lies
\* within 0..100 and is 100 when the last byte has been read; the progress shown
\* goes back to 0 only in a step that runs a reset timer.
C11_ProgressMonotoneToHundred ==
    [][ /\ \A u \in DOMAIN uploads :
              /\ uploads'[u].step >= uploads[u].step
              /\ uploads'[u].step # uploads[u].step => uploads'[u].step \in 0..100
              /\ (uploads[u].pc = "read" /\ uploads'[u].ended = "break")
                     => uploads'[u].step = 100
        /\ (progress # 0 /\ progress' = 0) =>
              \E t \in timers \ timers' : t.kind = "reset"
      ]_vars

\* C12: the step that ends an invocation of embedDocumentPost, whether the
\* embedding call yielded a success response, a failure response or was
\* rejected, leaves isEmbedding false, shows exactly one notification (success
\* for response.success, otherwise an error with the response's message) and
\* calls loadFiles; an invocation starts only while isEmbedding is false.
C12_EmbeddingAlwaysEnds ==
    [][ /\ \A e \in DOMAIN embeds :
              (embeds[e].pc = "await" /\ embeds'[e].pc # "await") =>
                  /\ ~isEmbedding'
                  /\ Len(toasts') = Len(toasts) + 1
                  /\ LET shown == toasts'[Len(toasts')]
                     IN  IF embeds'[e].response.success
                         THEN shown.kind = "success"
                         ELSE /\ shown.kind = "error"
                              /\ shown.description = embeds'[e].response.errorMessage
                  /\ loadsPending' = loadsPending + 1
        /\ Len(embeds') > Len(embeds) => ~isEmbedding
      ]_vars

\* C13: in every state the route can reach, the file records have pairwise
\* different ids and each of them describes a stored file: a file of the
\* record's filename is on disk (so it was written before the record was
\* inserted) and its size is the record's fileSize.
C13_RecordsDescribeStoredFiles ==
    /\ \A i, j \in DOMAIN fileRows :
           i # j => fileRows[i].id # fileRows[j].id
    /\ \A i \in DOMAIN fileRows :
           \E f \in disk :
               /\ f.name = fileRows[i].filename
               /\ Len(f.bytes) = fileRows[i].fileSize

====
